---- MODULE Spec2Model ----
(***************************************************************************)
(* RideAware map/form UI (frontend/src/App.tsx): the React state of the    *)
(* App component, its event handlers, and the fetch requests they have in  *)
(* flight.  The backend is not part of the repository sources; it is the   *)
(* environment and answers every request with any outcome.                 *)
(*                                                                         *)
(* Each handler runs to its next await in one step.  A fetch and the read  *)
(* of its body (await fetch; await res.json()) are one step: no state is   *)
(* written between the two awaits.  A closure keeps the values of the      *)
(* render it was created in, so a request in flight carries the language,  *)
(* category filter and search text of that render.                         *)
(*                                                                         *)
(* A JavaScript value that may be null is a sequence: <<>> is null,        *)
(* <<v>> is the value v.  A string the code measures or trims is a         *)
(* sequence of one-character strings.                                      *)
(***************************************************************************)
EXTENDS Integers, Sequences, FiniteSets, TLC

VARIABLES language, text, picked, reports, error, busy,
          filterCategory, searchText, tempSearch,
          inflight, last, events

vars == <<language, text, picked, reports, error, busy,
          filterCategory, searchText, tempSearch, inflight, last, events>>

(* ------------------------------ bounds --------------------------------- *)

\* whitespace characters typed before and after the body of a text
MaxPad == 1
\* user events (edits, clicks) in one run; responses are not counted
MaxEvents == 5
\* reports in one list response of the server
MaxList == 1

(* -------------------------- program constants -------------------------- *)

MinLen == 5
MaxLen == 150

CATEGORIES == <<"Hindernis", "Infrastrukturproblem", "Gefahrenstelle", "Positives Feedback">>

translations ==
  [en |-> [errorLength |-> "Text must be between 5 and 150 characters.",
           errorNoLocation |-> "Please select a position on the map first.",
           errorSendFailed |-> "Sending failed.",
           errorBackendUnreachable |-> "Backend unreachable (is FastAPI running on port 8000?).",
           errorLoadReports |-> "Reports could not be loaded."],
   de |-> [errorLength |-> "Text muss zwischen 5 und 150 Zeichen haben.",
           errorNoLocation |-> "Bitte zuerst eine Position auf der Karte auswählen.",
           errorSendFailed |-> "Senden fehlgeschlagen.",
           errorBackendUnreachable |-> "Backend nicht erreichbar (läuft FastAPI auf Port 8000?).",
           errorLoadReports |-> "Reports konnten nicht geladen werden."]]

\* the display names of the categories
categoryTranslations ==
  [en |-> ("Hindernis" :> "Obstacle" @@ "Gefahrenstelle" :> "Danger Spot"
           @@ "Infrastrukturproblem" :> "Infrastructure Problem"
           @@ "Positives Feedback" :> "Positive Feedback" @@ "Spam" :> "Spam"),
   de |-> ("Hindernis" :> "Hindernis" @@ "Gefahrenstelle" :> "Gefahrenstelle"
           @@ "Infrastrukturproblem" :> "Infrastrukturproblem"
           @@ "Positives Feedback" :> "Positives Feedback" @@ "Spam" :> "Spam")]

(* ------------------------------ strings -------------------------------- *)

Whitespace == {" ", "\n", "\t"}

RECURSIVE TrimStart(_)
TrimStart(s) ==
  IF s # <<>> /\ Head(s) \in Whitespace THEN TrimStart(Tail(s)) ELSE s

RECURSIVE TrimEnd(_)
TrimEnd(s) ==
  IF s # <<>> /\ s[Len(s)] \in Whitespace
    THEN TrimEnd(SubSeq(s, 1, Len(s) - 1))
    ELSE s

\* whitespace removed at the start only
TrimStartOnly(s) == TrimStart(s)

\* String.prototype.trim
Trim(s) == TrimEnd(TrimStart(s))

(* ------------------------------ inputs --------------------------------- *)

Pad(n) == [i \in 1..n |-> " "]
Body(n) == [i \in 1..n |-> "a"]

\* body lengths around the two limits of the length check
BodyLens == {MinLen - 1, MinLen, MaxLen, MaxLen + 1}

\* what the user types into the textarea: a body with whitespace around it
TextInputs == {Pad(MaxPad) \o Body(n) \o Pad(MaxPad) : n \in BodyLens}

\* what a map click delivers: <<lat, lng>>
Positions == {<<48, 16>>}

\* the options of the category dropdown: "" (all) and entries of CATEGORIES
FilterChoices == {"", CATEGORIES[1]}

\* what the user types into the search input
SearchInputs == {"", "glass"}

(* --------------------------- server answers ---------------------------- *)

\* reports the server may return
ServerReports == {[id |-> 1, category |-> "Hindernis"], [id |-> 2, category |-> "Spam"]}

ServerLists == UNION {[1..n -> ServerReports] : n \in 0..MaxList}

\* outcome of a list request as loadReports meets it:
\*   network  fetch rejects
\*   notjson  the server answered, res.json() rejects
\*   object   the server answered with JSON that is no array (data.filter is no function)
\*   nullitem the server answered with an array holding null (r.category throws)
\*   array    the server answered with an array of reports
ListOutcomes ==
  {[kind |-> k, list |-> <<>>] : k \in {"network", "notjson", "object", "nullitem"}}
    \cup {[kind |-> "array", list |-> l] : l \in ServerLists}

ServerDetails == {"text must have 5 to 150 characters"}

\* outcome of POST /reports as submit meets it:
\*   network  fetch rejects
\*   ok       res.ok
\*   error    !res.ok; json: res.json() resolves; object: the JSON value is an
\*            object; detail: its detail field, <<>> when missing or null
PostOutcomes ==
  {[kind |-> k, json |-> FALSE, object |-> FALSE, detail |-> <<>>] : k \in {"network", "ok"}}
    \cup {[kind |-> "error", json |-> FALSE, object |-> FALSE, detail |-> <<>>],
          [kind |-> "error", json |-> TRUE, object |-> FALSE, detail |-> <<>>],
          [kind |-> "error", json |-> TRUE, object |-> TRUE, detail |-> <<>>]}
    \cup {[kind |-> "error", json |-> TRUE, object |-> TRUE, detail |-> <<d>>] : d \in ServerDetails}

(* ------------------------------ helpers -------------------------------- *)

\* the upper limit off by one
LengthInvalidUpperOffByOne(trimmed) == Len(trimmed) < MinLen \/ Len(trimmed) > MaxLen + 1

\* the lower limit exclusive instead of inclusive
LengthInvalidLowerStrict(trimmed) == Len(trimmed) <= MinLen \/ Len(trimmed) > MaxLen

\* trimmed.length < 5 || trimmed.length > 150
LengthInvalid(trimmed) == Len(trimmed) < MinLen \/ Len(trimmed) > MaxLen

\* the position check left out
NoPositionNever(p) == FALSE

\* !picked
NoPosition(p) == p = <<>>

\* the button never disabled
SubmitEnabledAlways(b) == TRUE

\* the submit button fires its onClick unless disabled={busy}
SubmitEnabled(b) == ~b

\* the status of the answer not looked at
ResOkAnyStatus(o) == TRUE

\* res.ok of an answered POST
ResOk(o) == o.kind = "ok"

\* only a rejected fetch is treated as a failure; any other body is taken
\* as the list (an unusable one as the empty list)
LoadThrowsOnlyOnNetwork(o) == o.kind = "network"

\* loadReports throws before it reaches setReports: fetch rejects,
\* res.json() rejects, data.filter is no function, or r.category of null
LoadThrows(o) == o.kind # "array"

\* the URLSearchParams of loadReports, in append order
Params(fc, st) ==
  (IF fc # "" THEN << <<"category", fc>> >> ELSE <<>>)
    \o (IF st # "" THEN << <<"search", st>> >> ELSE <<>>)

\* the category filter left out of the export
ExportParamsNone(fc) == <<>>

\* the URLSearchParams of exportCSV, in append order
ExportParams(fc) == IF fc # "" THEN << <<"category", fc>> >> ELSE <<>>

\* the list taken as the server sent it
NotSpamKeepAll(list) == list

\* data.filter((r) => r.category !== "Spam")
NotSpam(list) == SelectSeq(list, LAMBDA r : r.category # "Spam")

\* the detail of the answer ignored
CoalesceFallbackOnly(detail, fallback) == fallback

\* detail ?? fallback
Coalesce(detail, fallback) == IF detail = <<>> THEN fallback ELSE detail[1]

\* the option's value is its display name
OptionValueTranslated(cat, lang) == IF cat = "" THEN "" ELSE categoryTranslations[lang][cat]

\* e.target.value of the category select when the option cat is chosen in
\* language lang: <option value="">, <option value={cat}>{ct[cat]}</option>
OptionValue(cat, lang) == cat

\* fetch(`${API_BASE}/reports?...`) of loadReports, called from a closure over
\* the language lang, the category filter fc and the search text st
ListRequest(origin, lang, fc, st) ==
  [method |-> "GET", path |-> "/reports", query |-> Params(fc, st),
   body |-> <<>>, origin |-> origin, lang |-> lang, fc |-> fc, st |-> st]

\* fetch(`${API_BASE}/reports`, {method: "POST", body: ...}) of submit, whose
\* closure holds lang, fc and st
PostRequest(trimmed, pos, lang, fc, st) ==
  [method |-> "POST", path |-> "/reports", query |-> <<>>,
   body |-> << [text |-> trimmed, latitude |-> pos[1], longitude |-> pos[2],
                source |-> "real"] >>,
   origin |-> "submit", lang |-> lang, fc |-> fc, st |-> st]

\* the sequence s without its i-th element
Without(s, i) == SubSeq(s, 1, i - 1) \o SubSeq(s, i + 1, Len(s))

\* what the step just taken was: the handler op; the origin of the request
\* whose response it handled ("" when none) and that response, or the URL
\* the step opened in a new window (<<>> when neither); how many requests it
\* issued, which are the last ones of inflight
Did(op, origin, out, issued) ==
  [op |-> op, origin |-> origin, out |-> out, issued |-> issued]

\* a user event, counted
UserEvent ==
  /\ events < MaxEvents
  /\ events' = events + 1

(* ------------------------------- state --------------------------------- *)

\* useState initial values, and the list request of the effect run on mount;
\* inflight holds the requests awaiting their response, oldest first
Init ==
  /\ language = "de"
  /\ text = <<>>
  /\ picked = <<>>
  /\ reports = <<>>
  /\ error = <<>>
  /\ busy = FALSE
  /\ filterCategory = ""
  /\ searchText = ""
  /\ tempSearch = ""
  /\ inflight = <<ListRequest("mount", "de", "", "")>>
  /\ last = Did("mount", "", <<>>, 1)
  /\ events = 0

(* ----------------------------- user input ------------------------------ *)

\* textarea onChange
SetText(v) ==
  /\ UserEvent
  /\ text' = v
  /\ last' = Did("setText", "", <<>>, 0)
  /\ UNCHANGED <<language, picked, reports, error, busy, filterCategory,
                 searchText, tempSearch, inflight>>

\* ClickToSetMarker onPick
PickPosition(p) ==
  /\ UserEvent
  /\ picked' = <<p>>
  /\ last' = Did("pick", "", <<>>, 0)
  /\ UNCHANGED <<language, text, reports, error, busy, filterCategory,
                 searchText, tempSearch, inflight>>

ToggleLanguage ==
  /\ UserEvent
  /\ language' = IF language = "en" THEN "de" ELSE "en"
  /\ last' = Did("toggleLanguage", "", <<>>, 0)
  /\ UNCHANGED <<text, picked, reports, error, busy, filterCategory,
                 searchText, tempSearch, inflight>>

\* search input onChange
SetTempSearch(s) ==
  /\ UserEvent
  /\ tempSearch' = s
  /\ last' = Did("setTempSearch", "", <<>>, 0)
  /\ UNCHANGED <<language, text, picked, reports, error, busy, filterCategory,
                 searchText, inflight>>

(* -------------------------- filter and search -------------------------- *)

\* useEffect(..., [filterCategory, searchText]): after a render in which a
\* dependency changed, loadReports() of that render is called
FilterEffect(fc, st) ==
  IF fc # filterCategory \/ st # searchText
    THEN inflight' = Append(inflight, ListRequest("effect", language, fc, st))
    ELSE inflight' = inflight

\* the error banner cleared when the filter changes
SetFilterCategoryClearsError(c) ==
  /\ UserEvent
  /\ filterCategory' = OptionValue(c, language)
  /\ error' = <<>>
  /\ FilterEffect(OptionValue(c, language), searchText)
  /\ last' = Did("setFilterCategory", "", <<>>, Len(inflight') - Len(inflight))
  /\ UNCHANGED <<language, text, picked, reports, busy, searchText, tempSearch>>

\* category select onChange
SetFilterCategory(c) ==
  /\ UserEvent
  /\ filterCategory' = OptionValue(c, language)
  /\ FilterEffect(OptionValue(c, language), searchText)
  /\ last' = Did("setFilterCategory", "", <<>>, Len(inflight') - Len(inflight))
  /\ UNCHANGED <<language, text, picked, reports, error, busy, searchText, tempSearch>>

HandleSearch ==
  /\ UserEvent
  /\ searchText' = tempSearch
  /\ FilterEffect(filterCategory, tempSearch)
  /\ last' = Did("handleSearch", "", <<>>, Len(inflight') - Len(inflight))
  /\ UNCHANGED <<language, text, picked, reports, error, busy, filterCategory, tempSearch>>

\* the clear button is rendered only when activeFilters
ClearFilters ==
  /\ UserEvent
  /\ filterCategory # "" \/ searchText # ""
  /\ filterCategory' = ""
  /\ searchText' = ""
  /\ tempSearch' = ""
  /\ FilterEffect("", "")
  /\ last' = Did("clearFilters", "", <<>>, Len(inflight') - Len(inflight))
  /\ UNCHANGED <<language, text, picked, reports, error, busy>>

\* exportCSV(): window.open(url, '_blank')
ExportCSV ==
  /\ UserEvent
  /\ last' = Did("exportCSV", "",
                 <<[path |-> "/reports/export", query |-> ExportParams(filterCategory)]>>, 0)
  /\ UNCHANGED <<language, text, picked, reports, error, busy, filterCategory,
                 searchText, tempSearch, inflight>>

(* ------------------------------- submit -------------------------------- *)

\* submit(), from the click to the first await or return
Submit ==
  /\ UserEvent
  /\ SubmitEnabled(busy)
  /\ LET trimmed == Trim(text) IN
       IF LengthInvalid(trimmed)
         THEN /\ error' = <<translations[language].errorLength>>
              /\ UNCHANGED <<busy, inflight>>
         ELSE IF NoPosition(picked)
           THEN /\ error' = <<translations[language].errorNoLocation>>
                /\ UNCHANGED <<busy, inflight>>
           ELSE IF picked = <<>>
             \* picked.lat of null throws inside the try: catch, finally
             THEN /\ error' = <<translations[language].errorBackendUnreachable>>
                  /\ busy' = FALSE
                  /\ UNCHANGED inflight
             ELSE /\ error' = <<>>
                  /\ busy' = TRUE
                  /\ inflight' = Append(inflight,
                       PostRequest(trimmed, picked[1], language, filterCategory, searchText))
  /\ last' = Did("submit", "", <<>>, Len(inflight') - Len(inflight))
  /\ UNCHANGED <<language, text, picked, reports, filterCategory, searchText, tempSearch>>

\* submit(), from the answer to its POST (inflight[i]) to the next await or
\* to its end
PostResponse(i, o) ==
  LET q == inflight[i] IN
  /\ UNCHANGED events
  /\ q.method = "POST"
  /\ IF o.kind = "network"
       \* fetch rejects: catch, finally
       THEN /\ error' = <<translations[q.lang].errorBackendUnreachable>>
            /\ busy' = FALSE
            /\ inflight' = Without(inflight, i)
            /\ UNCHANGED text
       ELSE IF ~ResOk(o)
         \* msg = await res.json().catch(() => null); msg?.detail ?? ...; finally
         THEN /\ error' = <<Coalesce(IF o.json /\ o.object THEN o.detail ELSE <<>>,
                                     translations[q.lang].errorSendFailed)>>
              /\ busy' = FALSE
              /\ inflight' = Without(inflight, i)
              /\ UNCHANGED text
         \* setText(""); await loadReports()
         ELSE /\ text' = <<>>
              /\ inflight' = Append(Without(inflight, i),
                                    ListRequest("submit", q.lang, q.fc, q.st))
              /\ UNCHANGED <<error, busy>>
  /\ last' = Did("postResponse", q.origin, <<o>>, Len(inflight') - Len(inflight) + 1)
  /\ UNCHANGED <<language, picked, reports, filterCategory, searchText, tempSearch>>

(* ----------------------------- list answers ---------------------------- *)

\* setBusy(false) after the await inside the try instead of in finally: busy
\* is reset only when the reload succeeded
ListResponseBusyAfterAwait(i, o) ==
  LET q == inflight[i] IN
  /\ UNCHANGED events
  /\ q.method = "GET"
  /\ inflight' = Without(inflight, i)
  /\ IF o.kind = "array"
       THEN /\ reports' = NotSpam(o.list)
            /\ UNCHANGED error
       ELSE /\ error' = IF q.origin = "submit"
                          THEN <<translations[q.lang].errorBackendUnreachable>>
                          ELSE <<translations[q.lang].errorLoadReports>>
            /\ UNCHANGED reports
  /\ busy' = IF q.origin = "submit" /\ o.kind = "array" THEN FALSE ELSE busy
  /\ last' = Did("listResponse", q.origin, <<o>>, 0)
  /\ UNCHANGED <<language, text, picked, filterCategory, searchText, tempSearch>>

\* loadReports() from the answer to its fetch (inflight[i]) on, and its
\* caller: the effect's catch, or the rest of submit (catch, finally)
ListResponse(i, o) ==
  LET q == inflight[i] IN
  /\ UNCHANGED events
  /\ q.method = "GET"
  /\ inflight' = Without(inflight, i)
  /\ IF ~LoadThrows(o)
       THEN /\ reports' = NotSpam(o.list)
            /\ UNCHANGED error
       ELSE /\ error' = IF q.origin = "submit"
                          THEN <<translations[q.lang].errorBackendUnreachable>>
                          ELSE <<translations[q.lang].errorLoadReports>>
            /\ UNCHANGED reports
  /\ busy' = IF q.origin = "submit" THEN FALSE ELSE busy
  /\ last' = Did("listResponse", q.origin, <<o>>, 0)
  /\ UNCHANGED <<language, text, picked, filterCategory, searchText, tempSearch>>

(* ---------------------------- specification ---------------------------- *)

Next ==
  \/ \E v \in TextInputs : SetText(v)
  \/ \E p \in Positions : PickPosition(p)
  \/ ToggleLanguage
  \/ \E s \in SearchInputs : SetTempSearch(s)
  \/ \E c \in FilterChoices : SetFilterCategory(c)
  \/ HandleSearch
  \/ ClearFilters
  \/ ExportCSV
  \/ Submit
  \/ \E i \in DOMAIN inflight : \E o \in PostOutcomes : PostResponse(i, o)
  \/ \E i \in DOMAIN inflight : \E o \in ListOutcomes : ListResponse(i, o)

Spec == Init /\ [][Next]_vars

(* ------------------------------- claims -------------------------------- *)

\* the requests issued by the step just taken
Issued == SubSeq(inflight, Len(inflight) - last.issued + 1, Len(inflight))

IssuedPosts == SelectSeq(Issued, LAMBDA q : q.method = "POST")

\* a length within the limits of the length check
InLimits(n) == MinLen <= n /\ n <= MaxLen

\* the requests in flight that belong to a submission: its POST, its reload
OfSubmission == SelectSeq(inflight, LAMBDA q : q.origin = "submit")

PostsInFlight == SelectSeq(inflight, LAMBDA q : q.method = "POST")

\* the text and position in the form would pass the checks of submit
FormValid == InLimits(Len(Trim(text))) /\ picked # <<>>

\* C1 as stated, for the text as typed: a submit action whose text has a
\* length below 5 or above 150 is rejected and issues no request.  (That the
\* error shown is the text-length error is left out here: the claim already
\* fails on the request.)
C1_RawLengthRejected ==
  (last.op = "submit" /\ ~InLimits(Len(text)))
    => (error # <<>> /\ ~busy /\ last.issued = 0)

\* C1 amended: a submit action whose whitespace-trimmed text has a length
\* below 5 or above 150 shows the text-length error and issues no request,
\* neither a POST nor a list GET.
C1_TrimmedLengthRejected ==
  (last.op = "submit" /\ ~InLimits(Len(Trim(text))))
    => (error = <<translations[language].errorLength>> /\ last.issued = 0)

\* C1 witness: a submit with a position selected and a trimmed text of more
\* than 150 characters was rejected with the text-length error.
C1_Witness ==
  /\ last.op = "submit"
  /\ Len(Trim(text)) > MaxLen
  /\ picked # <<>>
  /\ error = <<translations[language].errorLength>>
  /\ last.issued = 0

\* C2 as stated: a submit action with no position selected shows the
\* missing-position error, leaves busy false and issues no request.
C2_NoPositionShowsPositionError ==
  (last.op = "submit" /\ picked = <<>>)
    => /\ error = <<translations[language].errorNoLocation>>
       /\ ~busy
       /\ last.issued = 0

\* C2 amended: a submit action with no position selected is rejected: busy
\* stays false, no request is issued, and an error is shown, the
\* missing-position error when the trimmed text has 5 to 150 characters and
\* the text-length error otherwise.
C2_NoPositionRejected ==
  (last.op = "submit" /\ picked = <<>>)
    => /\ error = IF InLimits(Len(Trim(text)))
                    THEN <<translations[language].errorNoLocation>>
                    ELSE <<translations[language].errorLength>>
       /\ ~busy
       /\ last.issued = 0

\* C2 witness: a submit with a valid text and no position was rejected with
\* the missing-position error.
C2_Witness ==
  /\ last.op = "submit"
  /\ picked = <<>>
  /\ InLimits(Len(Trim(text)))
  /\ error = <<translations[language].errorNoLocation>>
  /\ ~busy
  /\ last.issued = 0

\* C3: at most one POST /reports is outstanding, at most one request of a
\* submission (its POST or its reload) is outstanding, and busy is true as
\* long as one is.
C3_AtMostOneSubmission ==
  /\ Len(PostsInFlight) <= 1
  /\ Len(OfSubmission) <= 1
  /\ (OfSubmission # <<>> => busy)

\* C3 witness: a POST is outstanding, busy is true, and the form holds a text
\* and a position with which one more click, were it possible, would send a
\* second POST.
C3_Witness ==
  /\ Len(PostsInFlight) = 1
  /\ busy
  /\ FormValid
  /\ events < MaxEvents

\* C4 as stated: a submit action with a text (as typed) of 5 to 150
\* characters and a position selected issues exactly one POST, and no other
\* step issues a POST.
C4_RawLengthOnePost ==
  /\ (last.op = "submit" /\ InLimits(Len(text)) /\ picked # <<>>)
       => (last.issued = 1 /\ Len(IssuedPosts) = 1)
  /\ (last.op # "submit" => IssuedPosts = <<>>)

\* C4 amended: a submit action whose whitespace-trimmed text has 5 to 150
\* characters, with a position selected, issues exactly one POST /reports
\* and nothing else; no other step, whatever answer it handles, issues a POST.
C4_ExactlyOnePost ==
  /\ (last.op = "submit" /\ InLimits(Len(Trim(text))) /\ picked # <<>>)
       => (last.issued = 1 /\ Len(IssuedPosts) = 1)
  /\ (last.op # "submit" => IssuedPosts = <<>>)

\* C4 witness: the POST of a submission failed at network level and the step
\* that handled the failure sent nothing.
C4_Witness ==
  /\ last.op = "postResponse"
  /\ last.out[1].kind = "network"
  /\ last.issued = 0
  /\ PostsInFlight = <<>>

\* C5: a reload GET of a submission is issued only by the step that handles
\* the OK answer to its POST, that step issues it, and a step that handles a
\* non-OK answer or a network failure of the POST issues nothing; the POST
\* and the reload of a submission are never outstanding together.
C5_ReloadOnlyAfterOk ==
  /\ \A i \in DOMAIN Issued :
       (Issued[i].method = "GET" /\ Issued[i].origin = "submit")
         => (last.op = "postResponse" /\ last.out[1].kind = "ok")
  /\ (last.op = "postResponse" /\ last.out[1].kind = "ok")
       => (last.issued = 1 /\ Issued[1].method = "GET" /\ Issued[1].origin = "submit")
  /\ (last.op = "postResponse" /\ last.out[1].kind # "ok") => last.issued = 0
  /\ Len(OfSubmission) <= 1

\* C5 witness: the OK answer to a POST was handled and the reload went out.
C5_Witness ==
  /\ last.op = "postResponse"
  /\ last.out[1].kind = "ok"
  /\ last.issued = 1
  /\ Issued[1].method = "GET"
  /\ Issued[1].origin = "submit"

\* the backend-unreachable message, in either language
Unreachable == {<<translations[l].errorBackendUnreachable>> : l \in DOMAIN translations}

\* the generic send-failed message, in either language
SendFailed == {<<translations[l].errorSendFailed>> : l \in DOMAIN translations}

\* the list-loading message, in either language
LoadFailed == {<<translations[l].errorLoadReports>> : l \in DOMAIN translations}

\* the step just taken handled the answer to a request of a submission
HandledSubmissionAnswer ==
  last.op \in {"postResponse", "listResponse"} /\ last.origin = "submit"

\* C6: a network-level failure of a request of a submission sets the error
\* to the backend-unreachable message, and when the server answered the
\* request (any status, any body) the error shown is not that message.
C6_UnreachableOnlyOnNetworkFailure ==
  /\ (HandledSubmissionAnswer /\ last.out[1].kind = "network")
       => error \in Unreachable
  /\ (HandledSubmissionAnswer /\ last.out[1].kind # "network")
       => error \notin Unreachable

\* C7: after a non-OK answer to POST /reports the error is the detail field
\* of the body when the body is a JSON object with one, and the generic
\* send-failed message otherwise, also when the body is no JSON.
C7_DetailOrSendFailed ==
  (last.op = "postResponse" /\ last.out[1].kind = "error")
    => IF last.out[1].json /\ last.out[1].object /\ last.out[1].detail # <<>>
         THEN error = last.out[1].detail
         ELSE error \in SendFailed

\* C7 witness: a non-OK answer carried a detail and it is the error shown.
C7_Witness ==
  /\ last.op = "postResponse"
  /\ last.out[1].kind = "error"
  /\ last.out[1].detail # <<>>
  /\ error = last.out[1].detail
  /\ error[1] \in ServerDetails

\* C8: a step that handles a failed list load (network failure, a body that
\* is no JSON, no array, or an array holding null), whatever triggered the
\* load, leaves reports as they were and sets an error message.
C8_FailedLoadKeepsReports ==
  [][(last'.op = "listResponse" /\ last'.out[1].kind # "array")
       => /\ reports' = reports
          /\ error' \in (IF last'.origin = "submit" THEN Unreachable ELSE LoadFailed)]_vars

\* C8 witness: the reload after a successful submit failed while reports
\* were displayed; they still are, and an error is set.
C8_Witness ==
  /\ last.op = "listResponse"
  /\ last.origin = "submit"
  /\ last.out[1].kind # "array"
  /\ reports # <<>>
  /\ error # <<>>

\* C9: the displayed list holds no report of category Spam.
C9_NoSpamDisplayed ==
  \A i \in DOMAIN reports : reports[i].category # "Spam"

\* C9 witness: with a category filter active the server answered a list
\* request with a list that holds a Spam report.
C9_Witness ==
  /\ last.op = "listResponse"
  /\ last.out[1].kind = "array"
  /\ \E i \in DOMAIN last.out[1].list : last.out[1].list[i].category = "Spam"
  /\ filterCategory # ""
  /\ reports = SelectSeq(last.out[1].list, LAMBDA r : r.category # "Spam")

\* the query of request q has the parameter k
HasKey(q, k) == \E i \in DOMAIN q.query : q.query[i][1] = k

\* the query of request q has the parameter k with the value v
HasParam(q, k, v) == \E i \in DOMAIN q.query : q.query[i] = <<k, v>>

\* C10: every list request carries, when it is issued, category=<the current
\* category filter> exactly when that filter is set and search=<the current
\* search text> exactly when that text is set.
C10_ListRequestReflectsFilters ==
  \A i \in DOMAIN Issued :
    Issued[i].method = "GET" =>
      /\ IF filterCategory # ""
           THEN HasParam(Issued[i], "category", filterCategory)
           ELSE ~HasKey(Issued[i], "category")
      /\ IF searchText # ""
           THEN HasParam(Issued[i], "search", searchText)
           ELSE ~HasKey(Issued[i], "search")
      /\ Len(Issued[i].query) = (IF filterCategory # "" THEN 1 ELSE 0)
                                 + (IF searchText # "" THEN 1 ELSE 0)

\* C11: the URL opened by the export is /reports/export with
\* category=<the category filter> exactly when that filter is set, and it
\* never carries the search text.
C11_ExportCategoryOnly ==
  last.op = "exportCSV" =>
    LET u == last.out[1] IN
      /\ u.path = "/reports/export"
      /\ u.query = (IF filterCategory # ""
                      THEN << <<"category", filterCategory>> >>
                      ELSE <<>>)
      /\ \A i \in DOMAIN u.query : u.query[i][1] # "search"

\* C11 witness: an export with both a category filter and a committed search
\* text set.
C11_Witness ==
  /\ last.op = "exportCSV"
  /\ filterCategory # ""
  /\ searchText # ""
  /\ last.out[1].query = << <<"category", filterCategory>> >>

\* C12: busy is true only while a request of a submission (its POST or its
\* reload) is outstanding: once the submission has completed, with whatever
\* outcome, busy is false again.
C12_BusyOnlyWhileOutstanding ==
  busy => OfSubmission # <<>>

\* C12 witness: the reload of a submission failed and busy is false again.
C12_Witness ==
  /\ last.op = "listResponse"
  /\ last.origin = "submit"
  /\ last.out[1].kind # "array"
  /\ OfSubmission = <<>>
  /\ ~busy

\* the number of whitespace characters s starts with
LeadingSpace(s) ==
  CHOOSE a \in 0..Len(s) :
    /\ \A k \in 1..a : s[k] \in Whitespace
    /\ a < Len(s) => s[a + 1] \notin Whitespace

\* the number of whitespace characters s ends with
TrailingSpace(s) ==
  CHOOSE b \in 0..Len(s) :
    /\ \A k \in (Len(s) - b + 1)..Len(s) : s[k] \in Whitespace
    /\ b < Len(s) => s[Len(s) - b] \notin Whitespace

\* t is s without the whitespace at its two ends
IsTrimmed(t, s) ==
  IF LeadingSpace(s) = Len(s)
    THEN t = <<>>
    ELSE t = SubSeq(s, LeadingSpace(s) + 1, Len(s) - TrailingSpace(s))

\* C13: every POST in flight carries a text of 5 to 150 characters with no
\* whitespace at its ends and source "real"; the POST a submit action issues
\* carries the typed text without the whitespace at its ends and the
\* latitude and longitude of the position selected at that moment.
C13_PostBody ==
  /\ \A i \in DOMAIN PostsInFlight :
       LET b == PostsInFlight[i].body[1] IN
         /\ MinLen <= Len(b.text) /\ Len(b.text) <= MaxLen
         /\ b.text[1] \notin Whitespace
         /\ b.text[Len(b.text)] \notin Whitespace
         /\ b.source = "real"
  /\ (last.op = "submit" /\ last.issued = 1) =>
       LET b == Issued[1].body[1] IN
         /\ IsTrimmed(b.text, text)
         /\ picked # <<>>
         /\ b.latitude = picked[1][1]
         /\ b.longitude = picked[1][2]

\* C13 witness: a submit action sent a POST for a typed text that has
\* whitespace at its ends.
C13_Witness ==
  /\ last.op = "submit"
  /\ last.issued = 1
  /\ Issued[1].method = "POST"
  /\ text # <<>>
  /\ text[1] \in Whitespace
  /\ Len(Issued[1].body[1].text) = MaxLen

\* the client-generated error messages of language l
ClientMessages(l) == {<<translations[l][k]>> : k \in DOMAIN translations[l]}

\* C15: a displayed client-generated error message is in the selected
\* language.
C15_ErrorInSelectedLanguage ==
  (\E l \in DOMAIN translations : error \in ClientMessages(l))
    => error \in ClientMessages(language)

\* C17: when the answer to the last outstanding request is a list that is
\* displayed, and no failure is shown, that request is the one for the
\* current category filter and search text.
C17_LatestSelectionDisplayed ==
  [][(/\ last'.op = "listResponse"
      /\ last'.out[1].kind = "array"
      /\ inflight' = <<>>
      /\ error' = <<>>)
       => \E i \in DOMAIN inflight :
            /\ inflight' = SubSeq(inflight, 1, i - 1) \o SubSeq(inflight, i + 1, Len(inflight))
            /\ inflight[i].query =
                 (IF filterCategory' # "" THEN << <<"category", filterCategory'>> >> ELSE <<>>)
                   \o (IF searchText' # "" THEN << <<"search", searchText'>> >> ELSE <<>>)]_vars

\* C18: a submit action and a step that handles a network failure or a
\* non-OK answer of the POST leave text and picked as they were; the step
\* that handles the OK answer empties text and leaves picked; a handler
\* empties text only there, and no step of a submission changes picked.
C18_FailedSubmitKeepsForm ==
  [][/\ (last'.op = "submit" => (text' = text /\ picked' = picked))
     /\ (last'.op = "postResponse" /\ last'.out[1].kind # "ok")
          => (text' = text /\ picked' = picked)
     /\ (last'.op = "postResponse" /\ last'.out[1].kind = "ok")
          => (text' = <<>> /\ picked' = picked)
     /\ (last'.op = "listResponse" => (text' = text /\ picked' = picked))
     /\ (text # <<>> /\ text' = <<>>)
          => (last'.op = "postResponse" /\ last'.out[1].kind = "ok")]_vars

\* C18 witness: the POST was answered with a non-OK status and the form
\* still holds the text and the position.
C18_Witness ==
  /\ last.op = "postResponse"
  /\ last.out[1].kind = "error"
  /\ InLimits(Len(Trim(text)))
  /\ picked # <<>>

\* the handlers C19 lists as never clearing the error
KeepsError ==
  {"setText", "pick", "toggleLanguage", "setTempSearch", "setFilterCategory",
   "handleSearch", "clearFilters", "exportCSV"}

\* C19 as stated, its last part: a displayed list-loading error is replaced
\* or removed only by a submit action.
C19_LoadErrorUntilSubmit ==
  [][(error \in LoadFailed /\ error' \notin LoadFailed) => last'.op = "submit"]_vars

\* C19 amended: the error is reset to none only by a submit action; a text
\* edit, a map click, a language toggle, a filter or search change, clearing
\* the filters, an export and a successful list load leave it as it is; a
\* displayed list-loading error is replaced only by a submit action or by the
\* failure of a submission that was already under way.
C19_ErrorClearedOnlyBySubmit ==
  [][/\ (error # <<>> /\ error' = <<>>) => last'.op = "submit"
     /\ (last'.op \in KeepsError => error' = error)
     /\ (last'.op = "listResponse" /\ last'.out[1].kind = "array") => error' = error
     /\ (error \in LoadFailed /\ error' \notin LoadFailed)
          => \/ last'.op = "submit"
             \/ (last'.op \in {"postResponse", "listResponse"} /\ last'.origin = "submit")]_vars

\* C19 witness: a list load succeeded while a list-loading error was
\* displayed, and the error still is.
C19_Witness ==
  /\ last.op = "listResponse"
  /\ last.out[1].kind = "array"
  /\ error \in LoadFailed

(* ------------------- the variant without filter and search -------------- *)

\* the error messages of the variant without languages
simpleMessages ==
  [errorLength |-> "Text muss zwischen 5 und 150 Zeichen haben.",
   errorNoLocation |-> "Bitte zuerst eine Position auf der Karte auswählen.",
   errorSendFailed |-> "Senden fehlgeschlagen.",
   errorBackendUnreachable |-> "Backend nicht erreichbar (läuft FastAPI auf Port 8000?).",
   errorLoadReports |-> "Reports konnten nicht geladen werden."]

\* fetch(`${API_BASE}/reports`) of its loadReports
SimpleListRequest(origin) ==
  [method |-> "GET", path |-> "/reports", query |-> <<>>, body |-> <<>>, origin |-> origin]

\* fetch(`${API_BASE}/reports`, {method: "POST", body: ...}) of its submit
SimplePostRequest(trimmed, pos) ==
  [method |-> "POST", path |-> "/reports", query |-> <<>>,
   body |-> << [text |-> trimmed, latitude |-> pos[1], longitude |-> pos[2],
                source |-> "real"] >>,
   origin |-> "submit"]

\* its useState initial values and the list request of its effect on mount
SimpleInit ==
  [text |-> <<>>, picked |-> <<>>, reports |-> <<>>, error |-> <<>>, busy |-> FALSE,
   inflight |-> <<SimpleListRequest("mount")>>]

\* its textarea onChange
SimpleSetText(s, v) == [s EXCEPT !.text = v]

\* its ClickToSetMarker onPick
SimplePick(s, p) == [s EXCEPT !.picked = <<p>>]

\* its submit button: disabled={busy}
SimpleSubmitEnabled(s) == ~s.busy

\* a length check without the upper limit
SimpleLengthInvalidNoUpper(trimmed) == Len(trimmed) < 5

\* trimmed.length < 5 || trimmed.length > 150
SimpleLengthInvalid(trimmed) == Len(trimmed) < 5 \/ Len(trimmed) > 150

\* its submit(), from the click to the first await or return
SimpleSubmit(s) ==
  LET trimmed == Trim(s.text) IN
    IF SimpleLengthInvalid(trimmed)
      THEN [s EXCEPT !.error = <<simpleMessages.errorLength>>]
      ELSE IF s.picked = <<>>
        THEN [s EXCEPT !.error = <<simpleMessages.errorNoLocation>>]
        ELSE [s EXCEPT !.error = <<>>,
                       !.busy = TRUE,
                       !.inflight = Append(@, SimplePostRequest(trimmed, s.picked[1]))]

\* its submit(), from the answer o to its POST (s.inflight[i]) to the next
\* await or to its end
SimplePostResponse(s, i, o) ==
  IF o.kind = "network"
    THEN [s EXCEPT !.error = <<simpleMessages.errorBackendUnreachable>>,
                   !.busy = FALSE,
                   !.inflight = Without(@, i)]
    ELSE IF o.kind # "ok"
      THEN [s EXCEPT !.error = IF o.json /\ o.object /\ o.detail # <<>>
                                 THEN o.detail
                                 ELSE <<simpleMessages.errorSendFailed>>,
                     !.busy = FALSE,
                     !.inflight = Without(@, i)]
      ELSE [s EXCEPT !.text = <<>>,
                     !.inflight = Append(Without(@, i), SimpleListRequest("submit"))]

\* its loadReports() from the answer o to its fetch (s.inflight[i]) on, and
\* its caller: the effect's catch, or the rest of submit (catch, finally)
SimpleListResponse(s, i, o) ==
  LET q == s.inflight[i]
      r == [s EXCEPT !.inflight = Without(@, i),
                     !.busy = IF q.origin = "submit" THEN FALSE ELSE @]
  IN IF o.kind = "array"
       THEN [r EXCEPT !.reports = SelectSeq(o.list, LAMBDA x : x.category # "Spam")]
       ELSE [r EXCEPT !.error = IF q.origin = "submit"
                                  THEN <<simpleMessages.errorBackendUnreachable>>
                                  ELSE <<simpleMessages.errorLoadReports>>]

\* the steps both variants have, and the language toggle: no category filter
\* and no search text is ever set
NextUnfiltered ==
  \/ \E v \in TextInputs : SetText(v)
  \/ \E p \in Positions : PickPosition(p)
  \/ ToggleLanguage
  \/ Submit
  \/ \E i \in DOMAIN inflight : \E o \in PostOutcomes : PostResponse(i, o)
  \/ \E i \in DOMAIN inflight : \E o \in ListOutcomes : ListResponse(i, o)

SpecUnfiltered == Init /\ [][NextUnfiltered]_vars

\* a request as it goes over the wire, and the caller that awaits it
Wire(q) ==
  [method |-> q.method, path |-> q.path, query |-> q.query, body |-> q.body,
   origin |-> q.origin]

\* the error of the same kind in the variant without languages: the same
\* message key, or the same detail of the server
SameKind(e) ==
  IF \E l \in DOMAIN translations : e \in ClientMessages(l)
    THEN LET l == CHOOSE l \in DOMAIN translations : e \in ClientMessages(l)
             k == CHOOSE k \in DOMAIN translations[l] : translations[l][k] = e[1]
         IN <<simpleMessages[k]>>
    ELSE e

\* the state of the variant without filter and search that the state
\* corresponds to
ToSimple ==
  [text |-> text, picked |-> picked, reports |-> reports, error |-> SameKind(error),
   busy |-> busy, inflight |-> [i \in DOMAIN inflight |-> Wire(inflight[i])]]

\* C16: with no filter and no search text ever set, the richer variant starts
\* in the state that corresponds to the simpler variant's initial state, and
\* every text edit, map click, submit action and server response takes it
\* from a state corresponding to a state s of the simpler variant to the state
\* corresponding to what the simpler variant's handler makes of s: the same
\* requests in flight, text, position, reports, busy flag and kind of error.
\* A language toggle leaves the corresponding state as it is.
C16_RichRefinesSimple ==
  /\ ToSimple = SimpleInit
  /\ [][LET s == ToSimple
            o == last'.out[1]
        IN CASE last'.op = "setText" -> ToSimple' = SimpleSetText(s, text')
             [] last'.op = "pick" -> ToSimple' = SimplePick(s, picked'[1])
             [] last'.op = "toggleLanguage" -> ToSimple' = s
             [] last'.op = "submit" ->
                  SimpleSubmitEnabled(s) /\ ToSimple' = SimpleSubmit(s)
             [] last'.op = "postResponse" ->
                  \E i \in DOMAIN s.inflight :
                    /\ s.inflight[i].method = "POST"
                    /\ inflight' = SubSeq(inflight, 1, i - 1)
                                     \o SubSeq(inflight, i + 1, Len(inflight))
                                     \o SubSeq(inflight', Len(inflight), Len(inflight'))
                    /\ ToSimple' = SimplePostResponse(s, i, o)
             [] last'.op = "listResponse" ->
                  \E i \in DOMAIN s.inflight :
                    /\ s.inflight[i].method = "GET"
                    /\ ToSimple' = SimpleListResponse(s, i, o)
             [] OTHER -> FALSE]_vars

\* C16 witness: in English, a submission's POST was answered OK and its reload
\* failed; both variants show their backend-unreachable message.
C16_Witness ==
  /\ last.op = "listResponse"
  /\ last.origin = "submit"
  /\ language = "en"
  /\ error = <<translations.en.errorBackendUnreachable>>
  /\ ToSimple.error = <<simpleMessages.errorBackendUnreachable>>
  /\ text = <<>>
  /\ ~busy

\* a request without the language of the closure that issued it
NoLang(q) ==
  [method |-> q.method, path |-> q.path, query |-> q.query, body |-> q.body,
   origin |-> q.origin, fc |-> q.fc, st |-> q.st]

\* the step issued exactly one request, which apart from the language of its
\* closure is r
IssuedOnly(r) ==
  /\ Len(inflight') = Len(inflight) + 1
  /\ SubSeq(inflight', 1, Len(inflight)) = inflight
  /\ NoLang(inflight'[Len(inflight')]) = r

\* the step answered the i-th request in flight and issued exactly one
\* request, which apart from the language of its closure is r
AnsweredAnd(i, r) ==
  /\ Len(inflight') = Len(inflight)
  /\ SubSeq(inflight', 1, Len(inflight) - 1) = Without(inflight, i)
  /\ NoLang(inflight'[Len(inflight')]) = r

\* the step was followed by a render with category filter fc and search text
\* st: the list request of the effect when one of them changed, else none
LangFreeEffect(fc, st) ==
  IF fc # filterCategory \/ st # searchText
    THEN IssuedOnly([method |-> "GET", path |-> "/reports",
                     query |-> (IF fc # "" THEN << <<"category", fc>> >> ELSE <<>>)
                                 \o (IF st # "" THEN << <<"search", st>> >> ELSE <<>>),
                     body |-> <<>>, origin |-> "effect", fc |-> fc, st |-> st])
    ELSE inflight' = inflight

\* C14: a language toggle issues no request and leaves text, position,
\* reports, filter, search and busy as they were; and after every step the
\* requests in flight (with their category and search values), the URL
\* opened, the form and the filters are determined by what they were before
\* the step and by the user's action or the server's answer, whatever the
\* language is, so that runs with the same actions and answers that differ
\* in language toggles issue the same requests. The category sent is the
\* canonical name of the option chosen.
C14_LanguageAffectsDisplayOnly ==
  [][LET o == last'.out[1]
     IN CASE last'.op = "listResponse" ->
               /\ UNCHANGED <<text, picked, filterCategory, searchText, tempSearch>>
               /\ reports' = IF o.kind = "array" THEN NotSpam(o.list) ELSE reports
               /\ \E i \in DOMAIN inflight :
                    /\ inflight[i].method = "GET"
                    /\ busy' = IF inflight[i].origin = "submit" THEN FALSE ELSE busy
                    /\ inflight' = Without(inflight, i)
          [] last'.op = "toggleLanguage" ->
               /\ language' # language
               /\ last'.issued = 0
               /\ inflight' = inflight
               /\ UNCHANGED <<text, picked, reports, filterCategory, searchText,
                              tempSearch, busy>>
          [] last'.op = "setText" ->
               UNCHANGED <<picked, reports, busy, filterCategory, searchText,
                           tempSearch, inflight>>
          [] last'.op = "pick" ->
               UNCHANGED <<text, reports, busy, filterCategory, searchText,
                           tempSearch, inflight>>
          [] last'.op = "setTempSearch" ->
               UNCHANGED <<text, picked, reports, busy, filterCategory, searchText,
                           inflight>>
          [] last'.op = "setFilterCategory" ->
               /\ \E c \in FilterChoices :
                    filterCategory' = c /\ LangFreeEffect(c, searchText)
               /\ UNCHANGED <<text, picked, reports, busy, searchText, tempSearch>>
          [] last'.op = "handleSearch" ->
               /\ searchText' = tempSearch
               /\ LangFreeEffect(filterCategory, tempSearch)
               /\ UNCHANGED <<text, picked, reports, busy, filterCategory, tempSearch>>
          [] last'.op = "clearFilters" ->
               /\ filterCategory' = "" /\ searchText' = "" /\ tempSearch' = ""
               /\ LangFreeEffect("", "")
               /\ UNCHANGED <<text, picked, reports, busy>>
          [] last'.op = "exportCSV" ->
               /\ last'.out = <<[path |-> "/reports/export",
                                 query |-> IF filterCategory # ""
                                             THEN << <<"category", filterCategory>> >>
                                             ELSE <<>>]>>
               /\ UNCHANGED <<text, picked, reports, busy, filterCategory, searchText,
                              tempSearch, inflight>>
          [] last'.op = "submit" ->
               /\ IF picked = <<>> \/ ~InLimits(Len(Trim(text)))
                    THEN UNCHANGED <<busy, inflight>>
                    ELSE /\ busy'
                         /\ IssuedOnly(
                              [method |-> "POST", path |-> "/reports", query |-> <<>>,
                               body |-> << [text |-> Trim(text),
                                            latitude |-> picked[1][1],
                                            longitude |-> picked[1][2],
                                            source |-> "real"] >>,
                               origin |-> "submit",
                               fc |-> filterCategory, st |-> searchText])
               /\ UNCHANGED <<text, picked, reports, filterCategory, searchText, tempSearch>>
          [] last'.op = "postResponse" ->
               /\ \E i \in DOMAIN inflight :
                    /\ inflight[i].method = "POST"
                    /\ IF o.kind = "ok"
                         THEN /\ text' = <<>>
                              /\ busy' = busy
                              /\ AnsweredAnd(i,
                                   [method |-> "GET", path |-> "/reports",
                                    query |-> Params(inflight[i].fc, inflight[i].st),
                                    body |-> <<>>, origin |-> "submit",
                                    fc |-> inflight[i].fc, st |-> inflight[i].st])
                         ELSE /\ text' = text
                              /\ ~busy'
                              /\ inflight' = Without(inflight, i)
               /\ UNCHANGED <<picked, reports, filterCategory, searchText, tempSearch>>
          [] OTHER -> FALSE]_vars

\* C14 witness: with English selected, the category filter was set and the
\* list request issued for it carries the canonical category name.
C14_Witness ==
  /\ last.op = "setFilterCategory"
  /\ language = "en"
  /\ last.issued = 1
  /\ Issued[1].query = << <<"category", CATEGORIES[1]>> >>
  /\ categoryTranslations[language][CATEGORIES[1]] # CATEGORIES[1]

====
